---- MODULE Spec2Model ----
(***************************************************************************)
(* Model of pyannote.audio's overlapped speech detection pipeline          *)
(* (pipelines/overlapped_speech_detection.py) and of the speaker change    *)
(* detection targets (tasks/segmentation/speaker_change_detection.py).     *)
(*                                                                         *)
(* Time is an integer grid; a segment is the half-open interval            *)
(* [start, end).  Four specifications share the variables below:           *)
(*   SpecOverlap   to_overlap on annotations built track by track          *)
(*   SpecChange    SpeakerChangeDetection.prepare_y, statement by statement*)
(*   Spec          OverlappedSpeechDetection: __init__, get_metric, loss   *)
(*   SpecBinarize  OverlappedSpeechDetection: initialize, apply            *)
(***************************************************************************)
EXTENDS Integers, Sequences, FiniteSets, TLC

VARIABLES
    \* --- to_overlap ---
    annotation,     \* Annotation._tracks: segment -> tracks in insertion order
    recorded,       \* the Timeline of to_overlap before .support() (local `overlap`)
    overlap,        \* value returned by the last to_overlap(annotation) call
    opc             \* "build" while tracks are added, "done" after to_overlap

VARIABLES
    \* --- SpeakerChangeDetection.prepare_y ---
    one_hot_y,      \* (num_frames, num_speakers) 0/1 matrix, C-contiguous
    collar,         \* self.collar
    y,              \* the local y, one value per frame
    x_speakers,     \* the local x_speakers, one value per frame
    cpc             \* statement of prepare_y reached

VARIABLES
    \* --- OverlappedSpeechDetection: __init__, get_metric, loss ---
    ctor_args,      \* (precision, recall) given to the last __init__ call
    pipeline,       \* the object the last __init__ call returned, if any
    raised,         \* exception raised by the last call, or "none"
    metric,         \* what the last get_metric call returned, or "none"
    file,           \* the AudioFile: "annotation" and "overlap_reference" keys
    loss_call       \* the last loss call: what it scored and returned

VARIABLES
    \* --- OverlappedSpeechDetection: initialize, apply ---
    hyper,              \* onset, offset, min_duration_on, min_duration_off
    binarize,           \* self._binarize
    activation,         \* file["@overlapped_speech_detection/activation"]
    overlapped_speech,  \* value returned by the last apply call
    bpc                 \* statement of apply reached

ovars == <<annotation, recorded, overlap, opc>>
cvars == <<one_hot_y, collar, y, x_speakers, cpc>>
pvars == <<ctor_args, pipeline, raised, metric, file, loss_call>>
bvars == <<hyper, binarize, activation, overlapped_speech, bpc>>
vars == <<ovars, cvars, pvars, bvars>>

\* ------------------------------------------------------------------ bounds
MaxTime == 2        \* segment boundaries are drawn from 0..MaxTime
MaxEntries == 3     \* (segment, track) entries of an annotation
MaxFrames == 4      \* frames of a chunk
MaxSpeakers == 2    \* speakers (columns) of a chunk
MaxCollar == 2      \* collar, in frames
Scale == 3          \* precision, recall and targets are multiples of 1/Scale
MaxLevel == 2       \* activation scores and thresholds are drawn from 0..MaxLevel
MaxDuration == 2    \* min_duration_on / min_duration_off, in frame steps
MaxCurve == 4       \* frames of an activation curve

None == -1          \* Python's None where a number is optional

Tracks == {1, 2}
Labels == {"A", "B"}

\* ---------------------------------------------------------- pyannote.core
Seg(a, b) == [start |-> a, end |-> b]

Min(a, b) == IF a <= b THEN a ELSE b
Max(a, b) == IF a >= b THEN a ELSE b

\* Segment.__bool__: duration above SEGMENT_PRECISION (1e-6 < one grid step)
SegNonEmpty(s) == s.end - s.start > 0

\* Segment ordering (dataclass order=True): lexicographic on (start, end)
SegLT(a, b) == a.start < b.start \/ (a.start = b.start /\ a.end < b.end)
SegLE(a, b) == a = b \/ SegLT(a, b)

\* Segment.intersects
Intersects(a, b) ==
    \/ (a.start < b.start /\ b.start < a.end)
    \/ (a.start > b.start /\ a.start < b.end)
    \/ a.start = b.start

\* Segment.__and__ : s1 & s2
SegAnd(a, b) == Seg(Max(a.start, b.start), Min(a.end, b.end))

\* Segment.__xor__ : the gap between two segments
SegGap(a, b) == Seg(Min(a.end, b.end), Max(a.start, b.start))

\* Segment.__or__ : the extent of two segments
SegOr(a, b) == Seg(Min(a.start, b.start), Max(a.end, b.end))

\* SortedList of a set of segments
RECURSIVE SortSegs(_)
SortSegs(S) ==
    IF S = {} THEN <<>>
    ELSE LET m == CHOOSE x \in S : \A z \in S : SegLE(x, z)
         IN <<m>> \o SortSegs(S \ {m})

SeqRange(q) == {q[i] : i \in 1..Len(q)}

\* SortedList.add
RECURSIVE SortedAdd(_, _)
SortedAdd(tl, s) ==
    IF tl = <<>> THEN <<s>>
    ELSE IF SegLE(s, Head(tl)) THEN <<s>> \o tl
         ELSE <<Head(tl)>> \o SortedAdd(Tail(tl), s)

\* Timeline.add : ignored when the segment is empty or already there
TimelineAdd(tl, s) ==
    IF SegNonEmpty(s) /\ s \notin SeqRange(tl) THEN SortedAdd(tl, s) ELSE tl

\* Timeline.support_iter with collar = 0 : merge overlapping or touching segments
RECURSIVE SupportIter(_, _, _)
SupportIter(tl, i, new_segment) ==
    IF i > Len(tl) THEN <<new_segment>>
    ELSE IF ~SegNonEmpty(SegGap(tl[i], new_segment))
         THEN SupportIter(tl, i + 1, SegOr(new_segment, tl[i]))
         ELSE <<new_segment>> \o SupportIter(tl, i + 1, tl[i])

\* mutation of Support: .support() left out, the recorded segments are returned
NoMergeSupport(tl) == tl

Support(tl) == IF tl = <<>> THEN <<>> ELSE SupportIter(tl, 1, tl[1])

\* Annotation.get_timeline : the sorted segments that hold a track
GetTimeline(ann) == SortSegs(DOMAIN ann)

\* sorted(self._tracks[s], key=str) : insertion sort of the track names
RECURSIVE InsertSorted(_, _)
InsertSorted(q, t) ==
    IF q = <<>> THEN <<t>>
    ELSE IF t <= Head(q) THEN <<t>> \o q
         ELSE <<Head(q)>> \o InsertSorted(Tail(q), t)

RECURSIVE SortTracks(_)
SortTracks(q) ==
    IF q = <<>> THEN <<>> ELSE InsertSorted(SortTracks(Tail(q)), Head(q))

TrackNames(ann, s) == [i \in 1..Len(ann[s]) |-> ann[s][i][1]]

\* mutation of SortedTracks: only the track inserted first is visited
FirstTrackOnly(ann, s) == <<ann[s][1][1]>>

SortedTracks(ann, s) == SortTracks(TrackNames(ann, s))

\* annotation[s, t] : the label of track t of segment s
LabelOf(ann, s, t) ==
    LET i == CHOOSE j \in 1..Len(ann[s]) : ann[s][j][1] = t IN ann[s][i][2]

\* Timeline.co_iter : for each segment, the other timeline's segments up to
\* Segment(segment.end, segment.end) that intersect it, in sorted order
RECURSIVE TimelineCoIter(_, _, _, _)
TimelineCoIter(tl, other, i, j) ==
    IF i > Len(tl) THEN <<>>
    ELSE IF j > Len(other) \/ ~SegLE(other[j], Seg(tl[i].end, tl[i].end))
         THEN TimelineCoIter(tl, other, i + 1, 1)
         ELSE (IF Intersects(tl[i], other[j])
               THEN << <<tl[i], other[j]>> >> ELSE <<>>)
              \o TimelineCoIter(tl, other, i, j + 1)

\* itertools.product(tracks, other_tracks) for one pair of segments
Product(s, ts, S, Ts) ==
    [k \in 1..(Len(ts) * Len(Ts)) |->
        << <<s, ts[((k - 1) \div Len(Ts)) + 1]>>,
           <<S, Ts[((k - 1) % Len(Ts)) + 1]>> >>]

\* Annotation.co_iter
RECURSIVE CoIterFrom(_, _, _, _)
CoIterFrom(ann, other, pairs, n) ==
    IF n > Len(pairs) THEN <<>>
    ELSE Product(pairs[n][1], SortedTracks(ann, pairs[n][1]),
                 pairs[n][2], SortedTracks(other, pairs[n][2]))
         \o CoIterFrom(ann, other, pairs, n + 1)

CoIter(ann, other) ==
    CoIterFrom(ann, other,
               TimelineCoIter(GetTimeline(ann), GetTimeline(other), 1, 1), 1)

\* string generator of Timeline.to_annotation(generator="string")
StringGenerator == <<"A", "B", "C", "D", "E", "F", "G", "H">>

\* Timeline.to_annotation : one track "_" per segment, labels from the generator
ToAnnotation(tl) ==
    [s \in SeqRange(tl) |->
        << <<"_", StringGenerator[CHOOSE i \in 1..Len(tl) : tl[i] = s]>> >>]

\* -------------------------------------------------------------- to_overlap
\* mutation of OverlapStep: the test l1 == l2 left out
OverlapStepNoLabelTest(ann, tl, pair) == TimelineAdd(tl, SegAnd(pair[1][1], pair[2][1]))

\* one iteration of the loop of to_overlap (lines 56-60)
OverlapStep(ann, tl, pair) ==
    IF LabelOf(ann, pair[1][1], pair[1][2]) = LabelOf(ann, pair[2][1], pair[2][2])
    THEN tl
    ELSE TimelineAdd(tl, SegAnd(pair[1][1], pair[2][1]))

RECURSIVE OverlapLoop(_, _, _, _)
OverlapLoop(ann, pairs, n, tl) ==
    IF n > Len(pairs) THEN tl
    ELSE OverlapLoop(ann, pairs, n + 1, OverlapStep(ann, tl, pairs[n]))

\* the Timeline filled by the loop (lines 54-60)
OverlapTimeline(ann) == OverlapLoop(ann, CoIter(ann, ann), 1, <<>>)

to_overlap(ann) == ToAnnotation(Support(OverlapTimeline(ann)))

\* ------------------------------------------------- SpecOverlap: the actions
EmptyAnnotation == <<>>     \* an Annotation without any track

\* speaker "A" on [0,10), speaker "B" on [5,15)
ExampleAnnotation ==
    (Seg(0, 10) :> << <<1, "A">> >>) @@ (Seg(5, 15) :> << <<1, "B">> >>)

\* the number of (segment, track) entries
NumEntries(ann) ==
    Cardinality(UNION {{<<s, j>> : j \in 1..Len(ann[s])} : s \in DOMAIN ann})

\* (s, t) in annotation
HasTrack(ann, s, t) ==
    s \in DOMAIN ann /\ \E j \in 1..Len(ann[s]) : ann[s][j][1] = t

\* annotation[s, t] = l
SetTrack(ann, s, t, l) ==
    IF s \notin DOMAIN ann THEN (s :> << <<t, l>> >>) @@ ann
    ELSE IF \E j \in 1..Len(ann[s]) : ann[s][j][1] = t
         THEN [ann EXCEPT ![s] =
                  [j \in 1..Len(ann[s]) |->
                      IF ann[s][j][1] = t THEN <<t, l>> ELSE ann[s][j]]]
         ELSE [ann EXCEPT ![s] = Append(ann[s], <<t, l>>)]

\* Each specification exercises one component; the variables of the other
\* components keep the idle values below.
NoPipeline == [exists |-> FALSE, precision |-> None, recall |-> None]
NoLossCall ==
    [called |-> FALSE, annotation |-> EmptyAnnotation, reference |-> EmptyAnnotation,
     precision |-> 0, recall |-> 0, value |-> [is_none |-> TRUE, float |-> 0]]

IdlePipeline ==
    /\ ctor_args = <<None, None>> /\ pipeline = NoPipeline /\ raised = "none"
    /\ metric = "none"
    /\ file = [annotation |-> EmptyAnnotation, has_reference |-> FALSE,
               overlap_reference |-> EmptyAnnotation]
    /\ loss_call = NoLossCall

NoHyper == [onset |-> 0, offset |-> 0, min_duration_on |-> 0, min_duration_off |-> 0]

IdleBinarize ==
    /\ hyper = NoHyper /\ binarize = NoHyper /\ activation = <<>>
    /\ overlapped_speech = <<>> /\ bpc = "idle"

IdleChange ==
    /\ one_hot_y = <<>> /\ collar = 0 /\ y = <<>> /\ x_speakers = <<>>
    /\ cpc = "idle"

InitOverlap ==
    /\ IdleChange /\ IdlePipeline /\ IdleBinarize
    /\ annotation \in {EmptyAnnotation, ExampleAnnotation}
    /\ overlap = EmptyAnnotation
    /\ recorded = <<>>
    /\ opc = "build"

\* annotation[Segment(a, b), t] = l
AddTrack ==
    /\ opc = "build"
    /\ \E a \in 0..MaxTime, b \in 0..MaxTime, t \in Tracks, l \in Labels :
          /\ a < b
          /\ HasTrack(annotation, Seg(a, b), t) \/ NumEntries(annotation) < MaxEntries
          /\ annotation' = SetTrack(annotation, Seg(a, b), t, l)
    /\ UNCHANGED <<recorded, overlap, opc>>
    /\ UNCHANGED <<cvars, pvars, bvars>>

ToOverlap ==
    /\ opc = "build"
    /\ recorded' = OverlapTimeline(annotation)
    /\ overlap' = to_overlap(annotation)
    /\ opc' = "done"
    /\ UNCHANGED annotation
    /\ UNCHANGED <<cvars, pvars, bvars>>

NextOverlap == AddTrack \/ ToOverlap

SpecOverlap == InitOverlap /\ [][NextOverlap]_vars

\* ------------------------------------------------------ claims: to_overlap
\* the unit cell [i, i+1) lies inside a segment of the annotation
Covers(ann, i) == \E s \in DOMAIN ann : s.start <= i /\ i < s.end

\* two entries with different labels are both active on the cell [i, i+1)
TwoSpeakersAt(ann, i) ==
    \E s1 \in DOMAIN ann, s2 \in DOMAIN ann :
        /\ s1.start <= i /\ i < s1.end
        /\ s2.start <= i /\ i < s2.end
        /\ \E j1 \in 1..Len(ann[s1]), j2 \in 1..Len(ann[s2]) :
              ann[s1][j1][2] # ann[s2][j2][2]

Horizon(ann) ==
    LET ends == {s.end : s \in DOMAIN ann} IN
    IF ends = {} THEN 0 ELSE CHOOSE m \in ends : \A e \in ends : e <= m

\* C1: to_overlap covers exactly the instants at which two entries with
\* different speaker labels are active together; A on [0,10) and B on [5,15)
\* give the single interval [5,10).
C1_OverlapExact ==
    opc = "done" =>
        /\ \A i \in 0..Horizon(annotation) :
              Covers(overlap, i) <=> TwoSpeakersAt(annotation, i)
        /\ annotation = ExampleAnnotation => GetTimeline(overlap) = <<Seg(5, 10)>>

\* a same-label pair and a distinct-label pair both intersect, and the
\* result is neither empty nor everything
C1_Witness ==
    /\ opc = "done"
    /\ overlap # EmptyAnnotation
    /\ \E s1 \in DOMAIN annotation, s2 \in DOMAIN annotation :
          /\ s1 # s2 /\ Intersects(s1, s2)
          /\ annotation[s1][1][2] = annotation[s2][1][2]
    /\ \E i \in 0..Horizon(annotation) :
          Covers(annotation, i) /\ ~Covers(overlap, i)

\* the example of the specification is reached
C1_ExampleReached ==
    opc = "done" /\ annotation = ExampleAnnotation

\* all orders in which the tracks of each segment can have been inserted
TrackOrders(q) ==
    {p \in [1..Len(q) -> SeqRange(q)] : \A i, j \in 1..Len(q) : p[i] = p[j] => i = j}

Reorderings(ann) ==
    {B \in [DOMAIN ann -> UNION {TrackOrders(ann[s]) : s \in DOMAIN ann}] :
        \A s \in DOMAIN ann : B[s] \in TrackOrders(ann[s])}

\* C2: to_overlap does not depend on the order in which the entries
\* (tracks) of the annotation were inserted.
C2_OrderInvariant ==
    opc = "done" => \A B \in Reorderings(annotation) : to_overlap(B) = overlap

C2_Witness ==
    /\ opc = "done"
    /\ overlap # EmptyAnnotation
    /\ \E B \in Reorderings(annotation) : B # annotation

\* C3: the intervals of the output are pairwise disjoint and ordered by
\* start time, whatever was recorded before support().
C3_DisjointSorted ==
    opc = "done" =>
        LET out == Support(recorded) IN
        /\ SeqRange(out) = DOMAIN overlap
        /\ \A i, j \in 1..Len(out) : i < j => out[i].start < out[j].start
        /\ \A s1 \in DOMAIN overlap, s2 \in DOMAIN overlap :
              s1 # s2 => ~SegNonEmpty(SegAnd(s1, s2))

\* overlapping (or nested) intersections were recorded before the merge
C3_Witness ==
    /\ opc = "done"
    /\ \E i, j \in 1..Len(recorded) :
          i # j /\ SegNonEmpty(SegAnd(recorded[i], recorded[j]))


\* ============================================================== prepare_y
NumFrames(m) == Cardinality(DOMAIN m)
NumSpeakers(m) == Cardinality(DOMAIN m[0])

Abs(x) == IF x < 0 THEN -x ELSE x

RECURSIVE SumTo(_, _)
\* f[0] + ... + f[n]
SumTo(f, n) == IF n < 0 THEN 0 ELSE f[n] + SumTo(f, n - 1)

\* lines 140-141: np.sum(np.abs(np.diff(one_hot_y, axis=0)), axis=1) > 0,
\* below a first row [[0]]
Diff(m) ==
    [t \in 0..(NumFrames(m) - 1) |->
        IF t = 0 THEN 0
        ELSE IF SumTo([k \in 0..(NumSpeakers(m) - 1) |-> Abs(m[t][k] - m[t - 1][k])],
                      NumSpeakers(m) - 1) > 0
             THEN 1 ELSE 0]

\* mutation of TriangNum: the Bartlett window, zero at both ends
BartlettNum(c, n) == IF c = 0 THEN 1 ELSE IF n <= c THEN n ELSE 2 * c - n

\* scipy.signal.triang(M) for odd M = 2c+1 is n/(c+1), n = 1..c+1..1;
\* the model keeps the numerators, TriangDen(c) is the common denominator
TriangNum(c, n) == IF n <= c THEN n + 1 ELSE 2 * c + 1 - n

TriangDen(c) == c + 1

\* scipy.signal.convolve(y, window, mode="full")[n], numerator
ConvFull(yy, c, n) ==
    SumTo([u \in 0..(Cardinality(DOMAIN yy) - 1) |->
              IF n - u >= 0 /\ n - u <= 2 * c THEN yy[u] * TriangNum(c, n - u) ELSE 0],
          Cardinality(DOMAIN yy) - 1)

\* mode="same": the size of y, centered with respect to the full output
ConvSame(yy, c) ==
    [t \in DOMAIN yy |-> ConvFull(yy, c, t + ((2 * c + 1) - 1) \div 2)]

\* num/den > 1e-10: the numerator is an integer and den = collar + 1 is far
\* below 1e10, so the value exceeds 1e-10 exactly when the numerator is >= 1
AboveEpsilon(num, den) == num >= 1

\* lines 144-146
Smooth(yy, c) ==
    LET conv == ConvSame(yy, c)
        clipped == [t \in DOMAIN yy |-> Min(1 * TriangDen(c), conv[t])]
    IN [t \in DOMAIN yy |-> IF AboveEpsilon(clipped[t], TriangDen(c)) THEN 1 ELSE 0]

\* lines 152-158: collar rows of zeros before and after one_hot_y
Expand(m, c) ==
    [r \in 0..(NumFrames(m) + 2 * c - 1) |->
        [k \in 0..(NumSpeakers(m) - 1) |->
            IF r < c \/ r >= c + NumFrames(m) THEN 0 ELSE m[r - c][k]]]

\* the buffer of a C-contiguous array, in items
Flat(e, S) == [i \in 0..(Cardinality(DOMAIN e) * S - 1) |-> e[i \div S][i % S]]

\* one_hot_y.strides in items: one_hot_y is a C-contiguous array
Strides(m) == <<NumSpeakers(m), 1>>

\* lines 162-166: as_strided(expanded_y, shape=(num_frames, num_speakers,
\* 2*collar+1), strides=(strides[0], strides[1], strides[0]))
Data(m, c, i, k, j) ==
    Flat(Expand(m, c), NumSpeakers(m))
        [i * Strides(m)[1] + k * Strides(m)[2] + j * Strides(m)[1]]

\* mutation of XSpeakers: "> 0" for "> 1", one speaker in the window is enough
AtLeastOneSpeaker(m, c) ==
    [i \in 0..(NumFrames(m) - 1) |->
        IF Cardinality({k \in 0..(NumSpeakers(m) - 1) :
               SumTo([j \in 0..(2 * c) |-> Data(m, c, i, k, j)], 2 * c) > 0}) > 0
        THEN 1 ELSE 0]

\* line 170: 1 * (np.sum(np.sum(data, axis=2) > 0, axis=1) > 1)
XSpeakers(m, c) ==
    [i \in 0..(NumFrames(m) - 1) |->
        IF Cardinality({k \in 0..(NumSpeakers(m) - 1) :
               SumTo([j \in 0..(2 * c) |-> Data(m, c, i, k, j)], 2 * c) > 0}) > 1
        THEN 1 ELSE 0]

\* speaker 0 on frames 0..4, speaker 1 on frames 5..9
ExampleOneHot ==
    [t \in 0..9 |-> [k \in 0..1 |-> IF (k = 0 /\ t < 5) \/ (k = 1 /\ t >= 5) THEN 1 ELSE 0]]

OneHotMatrices ==
    {ExampleOneHot} \cup
    UNION {[0..(T - 1) -> [0..(S - 1) -> {0, 1}]] : T \in 1..MaxFrames, S \in 1..MaxSpeakers}

\* to_overlap is not in use
IdleOverlap ==
    /\ annotation = EmptyAnnotation /\ recorded = <<>> /\ overlap = EmptyAnnotation
    /\ opc = "idle"

InitChange ==
    /\ IdleOverlap /\ IdlePipeline /\ IdleBinarize
    /\ one_hot_y \in OneHotMatrices
    /\ collar \in 0..MaxCollar
    /\ y = <<>>
    /\ x_speakers = <<>>
    /\ cpc = "start"

\* lines 137-141
PrepareY_Diff ==
    /\ cpc = "start"
    /\ y' = Diff(one_hot_y)
    /\ cpc' = "diffed"
    /\ UNCHANGED <<one_hot_y, collar, x_speakers>>
    /\ UNCHANGED <<ovars, pvars, bvars>>

\* lines 144-146
PrepareY_Smooth ==
    /\ cpc = "diffed"
    /\ y' = Smooth(y, collar)
    /\ cpc' = "smoothed"
    /\ UNCHANGED <<one_hot_y, collar, x_speakers>>
    /\ UNCHANGED <<ovars, pvars, bvars>>

\* lines 152-171
PrepareY_Window ==
    /\ cpc = "smoothed"
    /\ x_speakers' = XSpeakers(one_hot_y, collar)
    /\ cpc' = "windowed"
    /\ UNCHANGED <<one_hot_y, collar, y>>
    /\ UNCHANGED <<ovars, pvars, bvars>>

\* lines 173-175
PrepareY_Mask ==
    /\ cpc = "windowed"
    /\ y' = [t \in DOMAIN y |-> y[t] * x_speakers[t]]
    /\ cpc' = "done"
    /\ UNCHANGED <<one_hot_y, collar, x_speakers>>
    /\ UNCHANGED <<ovars, pvars, bvars>>

NextChange == PrepareY_Diff \/ PrepareY_Smooth \/ PrepareY_Window \/ PrepareY_Mask

SpecChange == InitChange /\ [][NextChange]_vars

\* ------------------------------------------------------- claims: prepare_y
Marked == {t \in DOMAIN y : y[t] = 1}

Silent(v) == \A k \in DOMAIN v : v[k] = 0
SingleSpeaker(v) == Cardinality({k \in DOMAIN v : v[k] = 1}) = 1

\* every frame-to-frame change goes between silence and one active speaker
OnlySilenceTransitions(m) ==
    \A t \in 1..(NumFrames(m) - 1) :
        m[t] # m[t - 1] =>
            \/ Silent(m[t - 1]) /\ SingleSpeaker(m[t])
            \/ SingleSpeaker(m[t - 1]) /\ Silent(m[t])

\* C5: when every change of the chunk is a non-speech/speech change,
\* prepare_y marks no frame.
C5_SilenceChangesUnmarked ==
    (cpc = "done" /\ OnlySilenceTransitions(one_hot_y)) => Marked = {}

\* a raw change lies within collar frames of t
ChangeNear(m, c, t) ==
    \E u \in 1..(NumFrames(m) - 1) : Abs(u - t) <= c /\ m[u] # m[u - 1]

\* the speakers active somewhere in frames t-c..t+c of the chunk
SpeakersNear(m, c, t) ==
    {k \in 0..(NumSpeakers(m) - 1) :
        \E f \in (t - c)..(t + c) : f \in DOMAIN m /\ m[f][k] = 1}

Targets == 0..Scale             \* a target, or an achieved score, k/Scale
OptionalTargets == Targets \cup {None}

\* mutation of PipelineInit: the test of lines 143-146 left out
InitWithoutValidation(precision, recall) ==
    [raised |-> "none",
     pipeline |-> [exists |-> TRUE, precision |-> precision, recall |-> recall]]

\* lines 143-149: the object __init__ leaves behind, and what it raises
PipelineInit(precision, recall) ==
    IF precision # None /\ recall # None
    THEN [raised |-> "ValueError", pipeline |-> NoPipeline]
    ELSE [raised |-> "none",
          pipeline |-> [exists |-> TRUE, precision |-> precision, recall |-> recall]]

\* a loss value: Python's None, or a float counted in units of 1/Scale
NoFloat == [is_none |-> TRUE, float |-> 0]
Float(x) == [is_none |-> FALSE, float |-> x]

\* mutation of LossValue: "<=" for "<" in both comparisons
LossValueAtMost(self, precision, recall) ==
    IF self.precision # None
    THEN (IF precision <= self.precision
          THEN Float(precision - self.precision) ELSE Float(recall))
    ELSE IF self.recall # None
         THEN (IF recall <= self.recall
               THEN Float(recall - self.recall) ELSE Float(precision))
         ELSE NoFloat

\* lines 244-254: the value loss returns (None when no target is configured)
LossValue(self, precision, recall) ==
    IF self.precision # None
    THEN (IF precision < self.precision
          THEN Float(precision - self.precision) ELSE Float(recall))
    ELSE IF self.recall # None
         THEN (IF recall < self.recall
               THEN Float(recall - self.recall) ELSE Float(precision))
         ELSE NoFloat

\* lines 233-239: the reference loss scores against, and the file afterwards
LossReference(f) ==
    IF f.has_reference THEN f.overlap_reference ELSE to_overlap(f.annotation)

LossFile(f) ==
    IF f.has_reference THEN f
    ELSE [f EXCEPT !.has_reference = TRUE, !.overlap_reference = to_overlap(f.annotation)]

\* reference annotations: speaker "A" on [0,2), speaker "B" on a grid segment
FileAnnotations ==
    {SetTrack(SetTrack(EmptyAnnotation, Seg(0, 2), 1, "A"), Seg(ab[1], ab[2]), 2, "B") :
        ab \in {p \in (0..MaxTime) \X (0..MaxTime) : p[1] < p[2]}}

Init ==
    /\ IdleOverlap /\ IdleChange /\ IdleBinarize
    /\ ctor_args = <<None, None>>
    /\ pipeline = NoPipeline
    /\ raised = "none"
    /\ metric = "none"
    /\ file \in {[annotation |-> a, has_reference |-> FALSE,
                   overlap_reference |-> EmptyAnnotation] : a \in FileAnnotations}
    /\ loss_call = NoLossCall

\* OverlappedSpeechDetection(precision=..., recall=...)
Construct ==
    /\ \E precision \in OptionalTargets, recall \in OptionalTargets :
          /\ ctor_args' = <<precision, recall>>
          /\ pipeline' = PipelineInit(precision, recall).pipeline
          /\ raised' = PipelineInit(precision, recall).raised
    /\ metric' = "none"
    /\ loss_call' = NoLossCall
    /\ UNCHANGED file
    /\ UNCHANGED <<ovars, cvars, bvars>>

\* pipeline.get_metric()
GetMetric ==
    /\ pipeline.exists
    /\ IF pipeline.precision # None \/ pipeline.recall # None
       THEN raised' = "NotImplementedError" /\ metric' = "none"
       ELSE raised' = "none" /\ metric' = "_Metric"
    /\ UNCHANGED <<ctor_args, pipeline, file, loss_call>>
    /\ UNCHANGED <<ovars, cvars, bvars>>

\* pipeline.loss(file, hypothesis); the precision and recall that
\* DetectionPrecisionRecallFMeasure computes are any two scores
Loss ==
    /\ pipeline.exists
    /\ \E precision \in Targets, recall \in Targets :
          loss_call' = [called |-> TRUE,
                        annotation |-> file.annotation,
                        reference |-> LossReference(file),
                        precision |-> precision,
                        recall |-> recall,
                        value |-> LossValue(pipeline, precision, recall)]
    /\ file' = LossFile(file)
    /\ raised' = "none"
    /\ UNCHANGED <<ctor_args, pipeline, metric>>
    /\ UNCHANGED <<ovars, cvars, bvars>>

\* file["annotation"] = a : the caller replaces the reference annotation
SetAnnotation ==
    /\ \E a \in FileAnnotations :
          /\ a # file.annotation
          /\ file' = [file EXCEPT !.annotation = a]
    /\ UNCHANGED <<ctor_args, pipeline, raised, metric, loss_call>>
    /\ UNCHANGED <<ovars, cvars, bvars>>

Next == Construct \/ GetMetric \/ Loss \/ SetAnnotation

Spec == Init /\ [][Next]_vars

\* -------------------------------------------------------- claims: pipeline
\* C6: with a target precision only, loss is precision - target (negative)
\* below the target and the recall from the target upwards; with a target
\* recall only, the same with precision and recall exchanged.
C6_LossAtTarget ==
    loss_call.called =>
        /\ (pipeline.precision # None /\ pipeline.recall = None) =>
              /\ ~loss_call.value.is_none
              /\ IF loss_call.precision < pipeline.precision
                 THEN /\ loss_call.value.float = loss_call.precision - pipeline.precision
                      /\ loss_call.value.float < 0
                 ELSE loss_call.value.float = loss_call.recall
        /\ (pipeline.recall # None /\ pipeline.precision = None) =>
              /\ ~loss_call.value.is_none
              /\ IF loss_call.recall < pipeline.recall
                 THEN /\ loss_call.value.float = loss_call.recall - pipeline.recall
                      /\ loss_call.value.float < 0
                 ELSE loss_call.value.float = loss_call.precision

\* the achieved precision equals the target exactly and the recall is returned
C6_Witness ==
    /\ loss_call.called
    /\ pipeline.precision # None
    /\ loss_call.precision = pipeline.precision
    /\ loss_call.recall > 0
    /\ loss_call.value = Float(loss_call.recall)

\* the achieved recall is below the target recall and the loss is negative
C6_BelowTargetRecall ==
    /\ loss_call.called
    /\ pipeline.recall # None
    /\ loss_call.recall < pipeline.recall
    /\ loss_call.value.float < 0

\* C7: a constructor call with both targets raises ValueError and leaves no
\* pipeline; a constructed pipeline has at most one target; get_metric
\* raises NotImplementedError exactly when a target is set.
C7_OneTargetOnly ==
    /\ (ctor_args[1] # None /\ ctor_args[2] # None) =>
          (raised = "ValueError" /\ ~pipeline.exists)
    /\ pipeline.exists => (pipeline.precision = None \/ pipeline.recall = None)
    /\ raised = "NotImplementedError" =>
          (pipeline.exists /\ (pipeline.precision # None \/ pipeline.recall # None))
    /\ metric = "_Metric" =>
          (pipeline.exists /\ pipeline.precision = None /\ pipeline.recall = None)

C7_Witness ==
    ctor_args[1] # None /\ ctor_args[2] # None /\ raised = "ValueError"

C7_GetMetricRaised ==
    raised = "NotImplementedError" /\ pipeline.recall # None

\* C10: the reference a loss call scores against is to_overlap of the
\* annotation the file holds when loss is called.
C10_ReferenceIsCurrent ==
    loss_call.called => loss_call.reference = to_overlap(loss_call.annotation)


\* ================================ OverlappedSpeechDetection: binarization
\* Times are frame indices; durations are counted in frame steps.

\* hysteresis scan of pyannote.audio.utils.signal.Binarize: in INACTIVE a
\* score above onset opens a segment at the current frame, in ACTIVE a score
\* below offset closes it at the current frame; only closed segments are kept
RECURSIVE Hysteresis(_, _, _, _, _)
Hysteresis(b, scores, t, active, start) ==
    IF t > Len(scores) THEN <<>>
    ELSE IF ~active
         THEN (IF scores[t] > b.onset
               THEN Hysteresis(b, scores, t + 1, TRUE, t - 1)
               ELSE Hysteresis(b, scores, t + 1, FALSE, start))
         ELSE (IF scores[t] < b.offset
               THEN <<Seg(start, t - 1)>> \o Hysteresis(b, scores, t + 1, FALSE, start)
               ELSE Hysteresis(b, scores, t + 1, TRUE, start))

\* post-processing 1: discard the segments shorter than min_duration_on
RemoveShort(b, segs) ==
    SelectSeq(segs, LAMBDA s : ~(s.end - s.start < b.min_duration_on))

\* post-processing 2: fill the gaps shorter than min_duration_off
RECURSIVE FillGaps(_, _, _, _)
FillGaps(b, segs, i, current) ==
    IF i > Len(segs) THEN <<current>>
    ELSE IF segs[i].start - current.end < b.min_duration_off
         THEN FillGaps(b, segs, i + 1, Seg(current.start, segs[i].end))
         ELSE <<current>> \o FillGaps(b, segs, i + 1, segs[i])

\* Binarize.__call__
Binarize(b, scores) ==
    LET kept == RemoveShort(b, Hysteresis(b, scores, 1, FALSE, 0))
    IN IF kept = <<>> THEN <<>> ELSE FillGaps(b, kept, 2, kept[1])

\* mutation of Initialize: min_duration_on and min_duration_off exchanged
InitializeSwapped(self) ==
    [onset |-> self.onset, offset |-> self.offset,
     min_duration_on |-> self.min_duration_off,
     min_duration_off |-> self.min_duration_on]

\* lines 151-159: the Binarize object initialize builds from the
\* hyper-parameters
Initialize(self) ==
    [onset |-> self.onset, offset |-> self.offset,
     min_duration_on |-> self.min_duration_on,
     min_duration_off |-> self.min_duration_off]

\* onset = 0.5, offset = 0.3 in tenths; min_duration_on = 1 s and
\* min_duration_off = 0.5 s in frame steps of 0.5 s
ExampleHyper ==
    [onset |-> 5, offset |-> 3, min_duration_on |-> 2, min_duration_off |-> 1]

\* 0.2 up to t = 2 s (frame 4), 0.6 from there, 0.2 from t = 8 s (frame 16)
ExampleActivation ==
    [t \in 1..18 |-> IF t - 1 < 4 THEN 2 ELSE IF t - 1 < 16 THEN 6 ELSE 2]

HyperParameters ==
    {ExampleHyper} \cup
    [onset : 0..MaxLevel, offset : 0..MaxLevel,
     min_duration_on : 0..MaxDuration, min_duration_off : 0..MaxDuration]

Activations ==
    {ExampleActivation} \cup UNION {[1..n -> 0..MaxLevel] : n \in 0..MaxCurve}

InitBinarize ==
    /\ IdleOverlap /\ IdleChange /\ IdlePipeline
    /\ hyper \in HyperParameters
    /\ binarize = Initialize(hyper)
    /\ activation = <<>>
    /\ overlapped_speech = <<>>
    /\ bpc = "start"

\* line 175-176: the segmentation model scores the file
Infer ==
    /\ bpc = "start"
    /\ activation' \in Activations
    /\ bpc' = "scored"
    /\ UNCHANGED <<hyper, binarize, overlapped_speech>>
    /\ UNCHANGED <<ovars, cvars, pvars>>

\* lines 178-180: the activation is binarized and returned
Apply ==
    /\ bpc = "scored"
    /\ overlapped_speech' = Binarize(binarize, activation)
    /\ bpc' = "applied"
    /\ UNCHANGED <<hyper, binarize, activation>>
    /\ UNCHANGED <<ovars, cvars, pvars>>

NextBinarize == Infer \/ Apply

SpecBinarize == InitBinarize /\ [][NextBinarize]_vars

\* ---------------------------------------------------- claims: binarization
\* C8: the output of apply holds no segment shorter than min_duration_on and
\* no two consecutive segments closer than min_duration_off; the curve that
\* rises above onset 0.5 at t = 2 and falls below offset 0.3 at t = 8 gives
\* the single segment [2, 8) (frames 4 to 16).
C8_MinDurations ==
    bpc = "applied" =>
        /\ \A i \in 1..Len(overlapped_speech) :
              overlapped_speech[i].end - overlapped_speech[i].start
                  >= hyper.min_duration_on
        /\ \A i \in 1..(Len(overlapped_speech) - 1) :
              overlapped_speech[i + 1].start - overlapped_speech[i].end
                  >= hyper.min_duration_off
        /\ (hyper = ExampleHyper /\ activation = ExampleActivation) =>
              overlapped_speech = <<Seg(4, 16)>>

\* two segments long enough to be kept were merged across a short gap
C8_Witness ==
    /\ bpc = "applied"
    /\ hyper.min_duration_on > 0
    /\ hyper.min_duration_off > 0
    /\ Len(overlapped_speech) = 1
    /\ Len(RemoveShort(binarize, Hysteresis(binarize, activation, 1, FALSE, 0))) >= 2

\* a segment shorter than min_duration_on was closed and discarded
C8_ShortDiscarded ==
    /\ bpc = "applied"
    /\ overlapped_speech = <<>>
    /\ Hysteresis(binarize, activation, 1, FALSE, 0) # <<>>

C8_ExampleReached ==
    bpc = "applied" /\ hyper = ExampleHyper /\ activation = ExampleActivation /\ overlapped_speech # <<>>

====
